---------------------------- MODULE Spec2Model ----------------------------
(***************************************************************************)
(* Cypherpunk CLI: the directory ingestion (get_stats), the key import     *)
(* (import_keys) and the chain encryption (encrypt_message) of src/main.rs *)
(* together with the library core of src/lib.rs and the Remailer entity of *)
(* src/remailer.rs.                                                        *)
(*                                                                         *)
(* Text is a sequence of atoms.  A character or a word is the atom         *)
(* [t |-> "txt", s |-> <string>]; the output of one successful PGP call is *)
(* the single atom [t |-> "pgp", to, body, utf8]: an ideal ciphertext that *)
(* only the relay `to` can open, giving back `body`.                       *)
(***************************************************************************)
EXTENDS Integers, Sequences, FiniteSets, TLC

(* ------------------------------ bounds --------------------------------- *)
MaxTokLen == 5
MaxRecords == 3
MaxKeys == 3
MaxChain == 3
MaxRedundancy == 2
MaxHeaders == 1

(* --------------------------- small helpers ----------------------------- *)
SeqsUpTo(S, n) ==
    UNION { [1..k -> S] : k \in 0..n }

Range(s) ==
    { s[i] : i \in DOMAIN s }

(* ----------------------- characters of a token ------------------------- *)
AsciiDigits ==
    {"0", "1", "2", "3", "4", "5", "6", "7", "8", "9"}

\* A decimal digit outside ASCII (ARABIC-INDIC DIGIT THREE): the regex class
\* \d is Unicode aware, str::parse::<u64> accepts ASCII digits only.
UniDigit ==
    "U+0663"

\* regex \d
IsDigit(c) ==
    c \in AsciiDigits \cup {UniDigit}

DigitVal(c) ==
    CASE c = "0" -> 0 [] c = "1" -> 1 [] c = "2" -> 2 [] c = "3" -> 3
      [] c = "4" -> 4 [] c = "5" -> 5 [] c = "6" -> 6 [] c = "7" -> 7
      [] c = "8" -> 8 [] c = "9" -> 9 [] OTHER -> 0

AllDigits(s) ==
    \A i \in DOMAIN s : IsDigit(s[i])

RECURSIVE DecimalValue(_)
DecimalValue(s) ==
    IF s = <<>> THEN 0
    ELSE 10 * DecimalValue(SubSeq(s, 1, Len(s) - 1)) + DigitVal(s[Len(s)])

\* str::parse::<u64>(): Err on an empty string or on any character that is
\* not an ASCII digit.  (Overflow of u64 needs 20 digits, beyond MaxTokLen.)
ParseU64(s) ==
    IF s # <<>> /\ \A i \in DOMAIN s : s[i] \in AsciiDigits
    THEN [ok |-> TRUE, v |-> DecimalValue(s)]
    ELSE [ok |-> FALSE, v |-> 0]

(* -------------------- Remailer::set_latency_from ----------------------- *)
\* [0-5]?\d
MinuteMatches(m) ==
    \/ Len(m) = 1 /\ IsDigit(m[1])
    \/ Len(m) = 2 /\ m[1] \in {"0", "1", "2", "3", "4", "5"} /\ IsDigit(m[2])

\* [0-5]\d
SecondMatches(s) ==
    Len(s) = 2 /\ s[1] \in {"0", "1", "2", "3", "4", "5"} /\ IsDigit(s[2])

\* ^((?P<hour>\d+):)?(?P<minute>[0-5]?\d):(?P<second>[0-5]\d)$
\* The set of ways the token splits into the groups: hl is the length of the
\* hour digits (0: the optional group is absent), ml the length of minute.
LatencyCaptures(tok) ==
    { c \in [hl : 0..Len(tok), ml : 1..2] :
        LET pre == IF c.hl = 0 THEN 0 ELSE c.hl + 1
        IN  /\ pre + c.ml + 3 = Len(tok)
            /\ c.hl > 0 => /\ AllDigits(SubSeq(tok, 1, c.hl))
                           /\ tok[c.hl + 1] = ":"
            /\ MinuteMatches(SubSeq(tok, pre + 1, pre + c.ml))
            /\ tok[pre + c.ml + 1] = ":"
            /\ SecondMatches(SubSeq(tok, pre + c.ml + 2, Len(tok))) }

\* The result of set_latency_from on a relay whose latency is `old`:
\* status "ok" with the new latency in seconds, or "panic" when one of the
\* parse::<u64>().unwrap() calls meets an Err (the latency is then not set).
set_latency_from(old, tok) ==
    IF LatencyCaptures(tok) = {}
    THEN [status |-> "ok", latency |-> 0]
    ELSE LET c == CHOOSE x \in LatencyCaptures(tok) : TRUE
             pre == IF c.hl = 0 THEN 0 ELSE c.hl + 1
             hour == ParseU64(SubSeq(tok, 1, c.hl))
             minute == ParseU64(SubSeq(tok, pre + 1, pre + c.ml))
             second == ParseU64(SubSeq(tok, pre + c.ml + 2, Len(tok)))
         IN  IF (c.hl > 0 /\ ~hour.ok) \/ ~minute.ok \/ ~second.ok
             THEN [status |-> "panic", latency |-> old]
             ELSE [status |-> "ok",
                   latency |-> (IF c.hl > 0 THEN hour.v * 3600 ELSE 0)
                               + minute.v * 60 + second.v]

(* --------------------------- directory feed ---------------------------- *)
Names ==
    {"austria", "dizum"}

Emails ==
    {"mixmaster@remailer.privacy.at", "remailer@dizum.com"}

\* Option<Match>: None is <<>>, Some(x) is <<x>>.
None ==
    <<>>

Some(x) ==
    <<x>>

\* What (?P<options>(\s[a-z0-9]+)+) can capture: whitespace, word, ...
OptionCaptures ==
    { <<" ", "cpunk">>, <<" ", "cpunk", " ", "pgp">>, <<" ", "mix", "\t", "pgp">> }

\* (?P<latency>[\d:]{0,2}[0-6]\d:[0-6]\d) of the feed pattern
OuterLatencyMatches(tok) ==
    /\ Len(tok) \in 5..7
    /\ LET p == Len(tok) - 5
       IN  /\ \A i \in 1..p : IsDigit(tok[i]) \/ tok[i] = ":"
           /\ tok[p + 1] \in {"0", "1", "2", "3", "4", "5", "6"}
           /\ IsDigit(tok[p + 2])
           /\ tok[p + 3] = ":"
           /\ tok[p + 4] \in {"0", "1", "2", "3", "4", "5", "6"}
           /\ IsDigit(tok[p + 5])

\* Latency columns a feed line may hold; the pattern keeps those it matches.
FeedLatencyTokens ==
    { <<"2", "5", ":", "5", "9">>,
      <<"1", ":", "2", "3", ":", "4", "5">>,
      <<"6", "5", ":", "5", "9">>,
      <<"9", "9">>,
      <<UniDigit, ":", "2", "3", ":", "4", "5">> }

StatsLatencyTokens ==
    { t \in FeedLatencyTokens : OuterLatencyMatches(t) }

\* What (?P<uptime>\d{1,3}.\d{1,2}) can capture (the dot matches any character).
UptimeTokens ==
    { <<"9", "9", ".", "5">>, <<"9", "x", "5">> }

\* str::parse::<f32>().unwrap_or(0f32), in hundredths of a percent.
ParseUptime(tok) ==
    LET dots == { i \in DOMAIN tok : tok[i] = "." }
        ascii == \A i \in DOMAIN tok : tok[i] \in AsciiDigits \cup {"."}
    IN  IF ~ascii \/ Cardinality(dots) > 1 \/ Cardinality(dots) = Len(tok)
        THEN 0
        ELSE IF dots = {}
        THEN 100 * DecimalValue(tok)
        ELSE LET d == CHOOSE i \in dots : TRUE
                 frac == SubSeq(tok, d + 1, Len(tok))
             IN  100 * DecimalValue(SubSeq(tok, 1, d - 1))
                 + (IF Len(frac) = 1 THEN 10 * DecimalValue(frac)
                    ELSE DecimalValue(frac))

\* str::split(" ") on a sequence of atoms: the pieces between the " " atoms.
RECURSIVE SplitSpace(_)
SplitSpace(s) ==
    IF \A i \in DOMAIN s : s[i] # " "
    THEN <<s>>
    ELSE LET i == CHOOSE k \in DOMAIN s :
                      s[k] = " " /\ \A j \in 1..(k - 1) : s[j] # " "
         IN  <<SubSeq(s, 1, i - 1)>> \o SplitSpace(SubSeq(s, i + 1, Len(s)))

\* IMatch: the named groups of one match of the feed pattern.
IMatch(name, email, options, date, name2, email2, latency, uptime) ==
    [name |-> name, email |-> email, options |-> options, date |-> date,
     name2 |-> name2, email2 |-> email2, latency |-> latency, uptime |-> uptime]

\* The three alternatives of the feed pattern.
IdentityMatches ==
    { IMatch(Some(n), Some(e), Some(o), None, None, None, None, None) :
        n \in Names, e \in Emails, o \in OptionCaptures }

FreshnessMatches ==
    { IMatch(None, None, None, Some("Sat 24 Aug 2019 16:00:01 GMT"),
             None, None, None, None) }

StatsMatches ==
    { IMatch(None, None, None, None, Some(x[1]), Some(x[2]), Some(x[3]), Some(x[4])) :
        x \in Names \X Emails \X StatsLatencyTokens \X UptimeTokens }

IMatches ==
    IdentityMatches \cup FreshnessMatches \cup StatsMatches

NoMatch ==
    IMatch(None, None, None, None, None, None, None, None)

(* ------------------------------ Remailer ------------------------------- *)
\* struct Remailer; latency in seconds, uptime in hundredths of a percent.
Remailer(name, email_address, options, latency, uptime) ==
    [name |-> name, email_address |-> email_address, options |-> options,
     latency |-> latency, keys |-> <<>>, uptime |-> uptime]

set_options(remailer, options) ==
    [remailer EXCEPT !.options = options]

set_latency(remailer, seconds) ==
    [remailer EXCEPT !.latency = seconds]

set_uptime(remailer, uptime) ==
    [remailer EXCEPT !.uptime = uptime]

\* HashMap::insert
Insert(map, key, value) ==
    [k \in DOMAIN map \cup {key} |-> IF k = key THEN value ELSE map[k]]

(* ------------------------------ get_stats ------------------------------ *)
\* ApplyIdentity with the struct-default-then-overwrite slip: the relay is
\* rebuilt from the record, the other fields fall back to their defaults.
ApplyIdentityRebuilds(regs, im) ==
    LET name == im.name[1]
    IN  [status |-> "ok",
         remailers |-> Insert(regs, name,
             Remailer(name, im.email[1], SplitSpace(im.options[1]), 0, 0))]

\* First arm of the match: an Identity record.
ApplyIdentity(regs, im) ==
    LET name == im.name[1]
        options == SplitSpace(im.options[1])
    IN  IF name \in DOMAIN regs
        THEN [status |-> "ok",
              remailers |-> [regs EXCEPT ![name] = set_options(@, options)]]
        ELSE [status |-> "ok",
              remailers |-> Insert(regs, name,
                                   Remailer(name, im.email[1], options, 0, 0))]

\* ApplyStats that also takes the email of the record for a known relay.
ApplyStatsTakesEmail(regs, im) ==
    LET name == im.name2[1]
        r == set_latency_from(0, im.latency[1])
    IN  IF r.status = "panic"
        THEN [status |-> "panic", remailers |-> regs]
        ELSE [status |-> "ok",
              remailers |-> Insert(regs, name,
                  Remailer(name, im.email2[1],
                           IF name \in DOMAIN regs THEN regs[name].options ELSE <<>>,
                           r.latency, ParseUptime(im.uptime[1])))]

\* Third arm of the match: a Stats record.  A panic of set_latency_from
\* (through .unwrap()) ends the process before anything is stored.
ApplyStats(regs, im) ==
    LET name == im.name2[1]
        uptime == ParseUptime(im.uptime[1])
    IN  IF name \in DOMAIN regs
        THEN LET r == set_latency_from(regs[name].latency, im.latency[1])
             IN  IF r.status = "panic"
                 THEN [status |-> "panic", remailers |-> regs]
                 ELSE [status |-> "ok",
                       remailers |-> [regs EXCEPT ![name] =
                           set_uptime(set_latency(@, r.latency), uptime)]]
        ELSE LET r == set_latency_from(0, im.latency[1])
             IN  IF r.status = "panic"
                 THEN [status |-> "panic", remailers |-> regs]
                 ELSE [status |-> "ok",
                       remailers |-> Insert(regs, name,
                           Remailer(name, im.email2[1], <<>>, r.latency, uptime))]

\* The closure of for_each: the match on one IMatch.
ApplyMatch(regs, im) ==
    IF im.name # None /\ im.email # None /\ im.options # None
    THEN ApplyIdentity(regs, im)
    ELSE IF im.date # None
    THEN [status |-> "ok", remailers |-> regs]
    ELSE IF im.name2 # None /\ im.email2 # None
            /\ im.latency # None /\ im.uptime # None
    THEN ApplyStats(regs, im)
    ELSE [status |-> "ok", remailers |-> regs]

(* ------------------------------- state --------------------------------- *)
VARIABLES
    remailers,      \* HashMap<String, Remailer>: the registry
    stats_pc,       \* get_stats: "idle", "run", "done", "panicked"
    nrec,           \* get_stats: captures handled so far
    last_match,     \* get_stats: the IMatch handled last (NoMatch: none yet)
    seen_identity,  \* per name, the options capture of its last Identity record
    seen_stats,     \* per name, <<latency, uptime>> of its last Stats record
    lat_tok,        \* set_latency_from: its argument
    lat_remailer,   \* set_latency_from: the relay it is called on
    lat_pc,         \* set_latency_from: "idle", "call", "returned", "panicked"
    keys_impl,      \* import_keys: "main" (src/main.rs) or "core" (src/lib.rs)
    keys_dir,       \* the entries of ./remailer-keys/, or the keys given to the core
    keys_dir_ok,    \* whether read_dir succeeds
    keys_pos,       \* index of the next entry
    keys_tried,     \* indices of the entries import_key was called on
    keys_pc,        \* "idle", "start", "run", "done", "err", "panicked"
    chain,          \* Args::chain, or the chain given to the core
    redundancy,     \* Args::redundancy
    mailto_link,    \* Args::mailto_link
    message,        \* the plaintext
    headers,        \* the extra headers given to the core
    pgp_backend,    \* the encrypt capability: "armored" or "any"
    random_remailers, \* the relay ids in the shuffled vector, order left out
    r_count,        \* attempts started so far
    pos,            \* tokens of the chain the fold has not handled yet
    acc,            \* the accumulator of the fold, a Fallible<Vec<u8>>
    resolved,       \* relays resolved in this attempt, in fold order
    pgp_calls,      \* PGP calls of this attempt, in order
    encrypted_messages, \* the message collector
    reported,       \* errors printed by "Message ignored, error occurred"
    pc              \* "idle", "start", "loop", "fold", "done", "aborted", "panicked"

statsVars ==
    <<remailers, stats_pc, nrec, last_match, seen_identity, seen_stats>>

latVars ==
    <<lat_tok, lat_remailer, lat_pc>>

keysVars ==
    <<keys_impl, keys_dir, keys_dir_ok, keys_pos, keys_tried, keys_pc>>

encVars ==
    <<chain, redundancy, mailto_link, message, headers, pgp_backend,
      random_remailers, r_count, pos, acc, resolved, pgp_calls, encrypted_messages, reported, pc>>

vars ==
    <<statsVars, latVars, keysVars, encVars>>

StatsIdle ==
    /\ remailers = <<>>
    /\ stats_pc = "idle"
    /\ nrec = 0
    /\ last_match = NoMatch
    /\ seen_identity = [n \in Names |-> None]
    /\ seen_stats = [n \in Names |-> None]

LatIdle ==
    /\ lat_tok = <<>>
    /\ lat_remailer = Remailer("", "", <<>>, 0, 0)
    /\ lat_pc = "idle"

KeysIdle ==
    /\ keys_impl = "main"
    /\ keys_dir = <<>>
    /\ keys_dir_ok = TRUE
    /\ keys_pos = 1
    /\ keys_tried = <<>>
    /\ keys_pc = "idle"

EncIdle ==
    /\ chain = <<>>
    /\ redundancy = 0
    /\ mailto_link = FALSE
    /\ message = <<>>
    /\ headers = <<>>
    /\ pgp_backend = "armored"
    /\ random_remailers = {}
    /\ r_count = 0
    /\ pos = 0
    /\ acc = [ok |-> TRUE, val |-> <<>>, err |-> ""]
    /\ resolved = <<>>
    /\ pgp_calls = <<>>
    /\ encrypted_messages = <<>>
    /\ reported = <<>>
    /\ pc = "idle"

(* --------------------------- get_stats: steps -------------------------- *)
\* let mut remailers = HashMap::new()
InitStats ==
    /\ remailers = <<>>
    /\ stats_pc = "run"
    /\ nrec = 0
    /\ last_match = NoMatch
    /\ seen_identity = [n \in Names |-> None]
    /\ seen_stats = [n \in Names |-> None]
    /\ LatIdle
    /\ KeysIdle
    /\ EncIdle

\* One turn of captures_iter(..).map(..).for_each(..)
GetStatsRecord ==
    /\ stats_pc = "run"
    /\ nrec < MaxRecords
    /\ \E im \in IMatches :
        LET r == ApplyMatch(remailers, im)
        IN  /\ remailers' = r.remailers
            /\ stats_pc' = IF r.status = "panic" THEN "panicked" ELSE "run"
            /\ nrec' = nrec + 1
            /\ last_match' = im
            /\ seen_identity' =
                   IF im \in IdentityMatches /\ r.status = "ok"
                   THEN [seen_identity EXCEPT ![im.name[1]] = Some(im.options[1])]
                   ELSE seen_identity
            /\ seen_stats' =
                   IF im \in StatsMatches /\ r.status = "ok"
                   THEN [seen_stats EXCEPT ![im.name2[1]] =
                             Some(<<im.latency[1], im.uptime[1]>>)]
                   ELSE seen_stats
    /\ UNCHANGED <<latVars, keysVars, encVars>>

\* Ok(remailers)
GetStatsReturn ==
    /\ stats_pc = "run"
    /\ stats_pc' = "done"
    /\ UNCHANGED <<remailers, nrec, last_match, seen_identity, seen_stats>>
    /\ UNCHANGED <<latVars, keysVars, encVars>>

NextStats ==
    \/ GetStatsRecord
    \/ GetStatsReturn

SpecStats ==
    InitStats /\ [][NextStats]_vars

(* ---------------------- set_latency_from: a call ----------------------- *)
TokAlphabet ==
    {"1", "6", ":", UniDigit}

LatencyTokens ==
    SeqsUpTo(TokAlphabet, MaxTokLen) \cup FeedLatencyTokens

InitLatency ==
    /\ StatsIdle
    /\ KeysIdle
    /\ EncIdle
    /\ lat_tok \in LatencyTokens
    /\ lat_remailer \in { Remailer("austria", "mixmaster@remailer.privacy.at",
                                   <<>>, l, 9950) : l \in {0, 1559} }
    /\ lat_pc = "call"

CallSetLatencyFrom ==
    /\ lat_pc = "call"
    /\ LET r == set_latency_from(lat_remailer.latency, lat_tok)
       IN  /\ lat_remailer' = set_latency(lat_remailer, r.latency)
           /\ lat_pc' = IF r.status = "panic" THEN "panicked" ELSE "returned"
    /\ UNCHANGED <<lat_tok, statsVars, keysVars, encVars>>

NextLatency ==
    CallSetLatencyFrom

SpecLatency ==
    InitLatency /\ [][NextLatency]_vars

(* ----------------------- properties of get_stats ---------------------- *)
\* C3: the registry holds exactly one Relay per distinct name seen, and a
\* relay that received an Identity and a Stats record, in either order,
\* exposes the options of the Identity record together with the latency and
\* the uptime of the Stats record.
C3_RegistryUnion ==
    /\ DOMAIN remailers =
           { n \in Names : seen_identity[n] # None \/ seen_stats[n] # None }
    /\ \A n \in DOMAIN remailers :
        /\ remailers[n].name = n
        /\ seen_identity[n] # None =>
               remailers[n].options = SplitSpace(seen_identity[n][1])
        /\ seen_stats[n] # None =>
               /\ remailers[n].latency =
                      set_latency_from(0, seen_stats[n][1][1]).latency
               /\ remailers[n].uptime = ParseUptime(seen_stats[n][1][2])

\* An Identity record arrived after the Stats record of the same relay, whose
\* latency and uptime are still there.
C3_Witness ==
    /\ stats_pc = "run"
    /\ last_match \in IdentityMatches
    /\ LET n == last_match.name[1]
       IN  /\ seen_stats[n] # None
           /\ remailers[n].latency = 5025
           /\ remailers[n].uptime = 9950
           /\ remailers[n].options = <<<<>>, <<"cpunk">>, <<"pgp">>>>

\* The relay a match names (None for a Freshness record).
NamedBy(im) ==
    IF im.name # None THEN im.name ELSE im.name2

C4_FrameStep ==
    (stats_pc = "run" /\ nrec' = nrec + 1 /\ stats_pc' = "run") =>
        LET im == last_match'
            who == NamedBy(im)
        IN  /\ \A n \in DOMAIN remailers :
                   Some(n) # who =>
                       n \in DOMAIN remailers' /\ remailers'[n] = remailers[n]
            /\ DOMAIN remailers' \subseteq DOMAIN remailers \cup Range(who)
            /\ im \in FreshnessMatches => remailers' = remailers
            /\ \A n \in DOMAIN remailers :
                   /\ (im \in IdentityMatches /\ Some(n) = who) =>
                          remailers'[n] =
                              [remailers[n] EXCEPT !.options = remailers'[n].options]
                   /\ (im \in StatsMatches /\ Some(n) = who) =>
                          remailers'[n] =
                              [remailers[n] EXCEPT !.latency = remailers'[n].latency,
                                                   !.uptime = remailers'[n].uptime]

\* C4: applying one record changes only what the record carries: an Identity
\* record for a known name replaces only its options, a Stats record for a
\* known name only its latency and uptime, a Freshness record nothing, and no
\* record changes a relay other than the one it names.
C4_Frame ==
    [][C4_FrameStep]_vars

\* An Identity record carrying another email was applied to a known relay,
\* which kept its email.
C4_Witness ==
    /\ stats_pc = "run"
    /\ last_match \in IdentityMatches
    /\ remailers[last_match.name[1]].email_address # last_match.email[1]
    /\ remailers[last_match.name[1]].uptime = 9950

(* -------------------- properties of set_latency_from ------------------- *)
\* The number a digit stands for, ASCII or not.
NumeralOf(c) ==
    IF c = UniDigit THEN 3 ELSE DigitVal(c)

RECURSIVE NumberOf(_)
NumberOf(s) ==
    IF s = <<>> THEN 0
    ELSE 10 * NumberOf(SubSeq(s, 1, Len(s) - 1)) + NumeralOf(s[Len(s)])

\* hours*3600 + minutes*60 + seconds for a token of the grammar, else zero.
ClaimedSeconds(tok) ==
    IF LatencyCaptures(tok) = {}
    THEN 0
    ELSE LET c == CHOOSE x \in LatencyCaptures(tok) : TRUE
             pre == IF c.hl = 0 THEN 0 ELSE c.hl + 1
         IN  NumberOf(SubSeq(tok, 1, c.hl)) * 3600
             + NumberOf(SubSeq(tok, pre + 1, pre + c.ml)) * 60
             + NumberOf(SubSeq(tok, pre + c.ml + 2, Len(tok)))

\* C10: set_latency_from returns success on every token, with the latency
\* set to hours*3600 + minutes*60 + seconds for a token of the grammar
\* ("1:23:45" gives 5025) and to zero for any other token (such as "99").
C10_LatencyParsed ==
    lat_pc # "call" =>
        /\ lat_pc = "returned"
        /\ lat_remailer.latency = ClaimedSeconds(lat_tok)

\* What holds of the code: the two examples of the claim, and the formula on
\* every token made of ASCII characters.
LatencyOnAscii ==
    /\ (lat_pc # "call" /\ lat_tok = <<"1", ":", "2", "3", ":", "4", "5">>) =>
           lat_pc = "returned" /\ lat_remailer.latency = 5025
    /\ (lat_pc # "call" /\ lat_tok = <<"9", "9">>) =>
           lat_pc = "returned" /\ lat_remailer.latency = 0
    /\ (lat_pc # "call" /\ UniDigit \notin Range(lat_tok)) =>
           lat_pc = "returned" /\ lat_remailer.latency = ClaimedSeconds(lat_tok)

(* ------------------------------ import_keys ---------------------------- *)
\* A directory entry: a key file the backend imports ("good") or rejects
\* ("bad"), a sub-directory ("dir"), an unreadable entry ("direrr").
MainEntryKinds ==
    {"good", "bad", "dir", "direrr"}

CoreKeyKinds ==
    {"good", "bad"}

\* PGPBackend::import_key / the import_key closure: Ok or Err.
import_key(kind) ==
    IF kind = "good" THEN "Ok" ELSE "Err"

\* main.rs, body of `for entry in keys_dir`: .map_err(..) turns the Err of
\* import_key into Err(()), on which .unwrap() panics.
MainEntry(kind) ==
    IF kind \in {"dir", "direrr"}
    THEN [called |-> FALSE, pc |-> "run"]
    ELSE [called |-> TRUE,
          pc |-> IF import_key(kind) = "Ok" THEN "run" ELSE "panicked"]

\* lib.rs, body of `for key in keys`: `?` returns the Err at once.
CoreKey(kind) ==
    [called |-> TRUE, pc |-> IF import_key(kind) = "Ok" THEN "run" ELSE "err"]

InitKeys ==
    /\ StatsIdle
    /\ LatIdle
    /\ EncIdle
    /\ keys_impl \in {"main", "core"}
    /\ keys_dir \in SeqsUpTo(IF keys_impl = "main" THEN MainEntryKinds
                                                  ELSE CoreKeyKinds, MaxKeys)
    /\ keys_dir_ok \in (IF keys_impl = "main" /\ keys_dir = <<>>
                        THEN BOOLEAN ELSE {TRUE})
    /\ keys_pos = 1
    /\ keys_tried = <<>>
    /\ keys_pc = IF keys_impl = "main" THEN "start" ELSE "run"

\* main.rs: std::fs::read_dir(keys_path)?
ImportKeysReadDir ==
    /\ keys_impl = "main" /\ keys_pc = "start"
    /\ keys_pc' = IF keys_dir_ok THEN "run" ELSE "err"
    /\ UNCHANGED <<keys_impl, keys_dir, keys_dir_ok, keys_pos, keys_tried>>
    /\ UNCHANGED <<statsVars, latVars, encVars>>

\* main.rs: one turn of the loop over the directory
ImportKeysEntry ==
    /\ keys_impl = "main" /\ keys_pc = "run" /\ keys_pos <= Len(keys_dir)
    /\ LET r == MainEntry(keys_dir[keys_pos])
       IN  /\ keys_tried' = IF r.called THEN Append(keys_tried, keys_pos)
                                        ELSE keys_tried
           /\ keys_pc' = r.pc
    /\ keys_pos' = keys_pos + 1
    /\ UNCHANGED <<keys_impl, keys_dir, keys_dir_ok>>
    /\ UNCHANGED <<statsVars, latVars, encVars>>

\* lib.rs: one turn of the loop over the keys
CoreImportKey ==
    /\ keys_impl = "core" /\ keys_pc = "run" /\ keys_pos <= Len(keys_dir)
    /\ LET r == CoreKey(keys_dir[keys_pos])
       IN  /\ keys_tried' = IF r.called THEN Append(keys_tried, keys_pos)
                                        ELSE keys_tried
           /\ keys_pc' = r.pc
    /\ keys_pos' = keys_pos + 1
    /\ UNCHANGED <<keys_impl, keys_dir, keys_dir_ok>>
    /\ UNCHANGED <<statsVars, latVars, encVars>>

\* Ok(()) after the loop, in both
ImportKeysReturn ==
    /\ keys_pc = "run" /\ keys_pos > Len(keys_dir)
    /\ keys_pc' = "done"
    /\ UNCHANGED <<keys_impl, keys_dir, keys_dir_ok, keys_pos, keys_tried>>
    /\ UNCHANGED <<statsVars, latVars, encVars>>

NextKeys ==
    \/ ImportKeysReadDir
    \/ ImportKeysEntry
    \/ CoreImportKey
    \/ ImportKeysReturn

SpecKeys ==
    InitKeys /\ [][NextKeys]_vars

\* The key files of the directory: the entries import_key is meant for.
KeyFiles ==
    { i \in DOMAIN keys_dir : keys_dir[i] \in {"good", "bad"} }

\* C9: a failure to import one key is never fatal: import_keys neither
\* crashes nor returns at a failing key, it attempts every key after it and
\* ends with Ok, so that the run goes on to the encryption.
C9_ImportNeverFatal ==
    /\ keys_pc # "panicked"
    /\ keys_pc = "err" => (keys_impl = "main" /\ ~keys_dir_ok)
    /\ keys_pc = "done" => Range(keys_tried) = KeyFiles

(* ------------------------------- text ---------------------------------- *)
Txt(s) ==
    [t |-> "txt", s |-> s]

\* The text made of the given characters and words.
Str(ss) ==
    [i \in 1..Len(ss) |-> Txt(ss[i])]

\* Fallible<T>
Ok(v) ==
    [ok |-> TRUE, val |-> v, err |-> ""]

Err(e) ==
    [ok |-> FALSE, val |-> <<>>, err |-> e]

(* --------------------------- PGP capability ---------------------------- *)
\* What one call may do: write a text (armored) ciphertext ("ok"), write a
\* ciphertext that is not valid UTF-8 ("binary"), or fail.  The three
\* backends of pgp.rs armor their output (set_armor(true), gpg -a,
\* armor::Writer); encrypt_message takes any closure.
PgpOutcomes(backend) ==
    IF backend = "armored" THEN {"ok", "fail"} ELSE {"ok", "binary", "fail"}

\* The bytes written to `output` by a call that succeeds: one ideal
\* ciphertext of `input` that only `recipient` can open.
Ciphertext(input, recipient, outcome) ==
    <<[t |-> "pgp", to |-> recipient, body |-> input, utf8 |-> (outcome = "ok")]>>

\* String::from_utf8 on the envelope: the payload of a ciphertext is hidden
\* in it, only the bytes of the outermost layer count.
IsUtf8(bytes) ==
    \A i \in DOMAIN bytes : bytes[i].t = "pgp" => bytes[i].utf8

(* ----------------------- main.rs: encrypt_message ---------------------- *)
EmailOf(n) ==
    IF n = "austria" THEN "mixmaster@remailer.privacy.at" ELSE "remailer@dizum.com"

\* Registries get_stats returns: each relay as its Identity record made it.
EncRegistries ==
    { [n \in S |-> Remailer(n, EmailOf(n), <<<<>>, <<"cpunk">>>>, 0, 0)] :
        S \in { {}, {"austria"}, {"austria", "dizum"} } }

\* Tokens of --chain: the wildcard, a known name, a name of no relay.
ChainTokens ==
    {"*", "austria", "nobody"}

Messages ==
    { Str(<<"Hello", " ", "World">>),
      Str(<<":", ":", "\n", "Anon-To", ":", " ", "bob@example.org", "\n", "\n", "Hi">>) }

\* 0..(*redundancy as u8): the cast of an i8 to u8
Attempts(r) ==
    r % 256

\* MainHeader with a line, empty, for extra headers the program does not take.
MainHeaderWithExtraLine(email) ==
    Str(<<"\n", ":", ":", "\n", "Anon-To", ":", " ", email, "\n", "\n", "\n",
          ":", ":", "\n", "Encrypted", ":", " ", "PGP", "\n", "\n">>)

\* format!("\n::\nAnon-To: {}\n\n::\nEncrypted: PGP\n\n", remailer.get_email())
MainHeader(email) ==
    Str(<<"\n", ":", ":", "\n", "Anon-To", ":", " ", email, "\n", "\n",
          ":", ":", "\n", "Encrypted", ":", " ", "PGP", "\n", "\n">>)

\* ResolveToken where a wildcard without candidate falls back to a default
\* relay (unwrap_or_default) in place of the error.
ResolveTokenDefaults(regs, candidates, token, pick) ==
    IF token = "*"
    THEN IF candidates = {}
         THEN Ok(Remailer("", "", <<>>, 0, 0))
         ELSE Ok(regs[pick])
    ELSE IF token \in DOMAIN regs
    THEN Ok(regs[token])
    ELSE Err("The remailer named is unknown!")

\* `match remailer.as_str()`: the relay a token stands for.  `candidates` are
\* the ids in random_remailers, `pick` is the one choose(&mut rng) draws.
ResolveToken(regs, candidates, token, pick) ==
    IF token = "*"
    THEN IF candidates = {}
         THEN Err("can't choose randomly a remailer_id")
         ELSE IF pick \in DOMAIN regs
         THEN Ok(regs[pick])
         ELSE Err("unknown remailer id ?!")
    ELSE IF token \in DOMAIN regs
    THEN Ok(regs[token])
    ELSE Err("The remailer named is unknown!")

\* FoldClosure that skips a token it cannot resolve and goes on with the
\* accumulator it was given.
FoldClosureSkipsUnknown(regs, candidates, input, token, pick, outcome) ==
    LET remailer == ResolveToken(regs, candidates, token, pick)
    IN  IF ~remailer.ok
        THEN [acc |-> input, relay |-> None, call |-> None]
        ELSE IF ~input.ok
        THEN [acc |-> input, relay |-> Some(remailer.val.name), call |-> None]
        ELSE LET email == remailer.val.email_address
                 call == [to |-> email, input |-> input.val, outcome |-> outcome]
             IN  IF outcome = "fail"
                 THEN [acc |-> Err("encryption failed"),
                       relay |-> Some(remailer.val.name), call |-> Some(call)]
                 ELSE [acc |-> Ok(MainHeader(email)
                                  \o Ciphertext(input.val, email, outcome)),
                       relay |-> Some(remailer.val.name), call |-> Some(call)]

\* The closure of the fold, for one token: the new accumulator, the relay
\* resolved (if any) and the PGP call made (if any).
FoldClosure(regs, candidates, input, token, pick, outcome) ==
    LET remailer == ResolveToken(regs, candidates, token, pick)
    IN  IF ~remailer.ok
        THEN [acc |-> Err(remailer.err), relay |-> None, call |-> None]
        ELSE IF ~input.ok
        THEN [acc |-> input, relay |-> Some(remailer.val.name), call |-> None]
        ELSE LET email == remailer.val.email_address
                 call == [to |-> email, input |-> input.val, outcome |-> outcome]
             IN  IF outcome = "fail"
                 THEN [acc |-> Err("encryption failed"),
                       relay |-> Some(remailer.val.name), call |-> Some(call)]
                 ELSE [acc |-> Ok(MainHeader(email)
                                  \o Ciphertext(input.val, email, outcome)),
                       relay |-> Some(remailer.val.name), call |-> Some(call)]

\* str::find of a two-character pattern: the index of its first occurrence,
\* 0 when there is none.
Find2(text, a, b) ==
    LET hits == { i \in 1..(Len(text) - 1) : text[i] = Txt(a) /\ text[i + 1] = Txt(b) }
    IN  IF hits = {} THEN 0 ELSE CHOOSE i \in hits : \A j \in hits : i <= j

\* utf8_percent_encode(.., NON_ALPHANUMERIC), atom by atom: an alphanumeric
\* word is kept, a character becomes its escape, any other atom x becomes
\* the atom "x, percent-encoded".
PercentEncode(text) ==
    [i \in DOMAIN text |->
        IF text[i] \in {Txt("Hello"), Txt("World"), Txt("Hi"), Txt("PGP"),
                        Txt("Encrypted"), Txt("Subject"), Txt("x")}
        THEN text[i]
        ELSE IF text[i] = Txt(" ") THEN Txt("%20")
        ELSE IF text[i] = Txt("\n") THEN Txt("%0A")
        ELSE IF text[i] = Txt(":") THEN Txt("%3A")
        ELSE [t |-> "pct", of |-> text[i]]]

\* format_mailto that drops the whole blank line in front of the body.
format_mailto_after_blank_line(text) ==
    LET email_start == Find2(text, ":", " ")
        m1 == SubSeq(text, email_start + 2, Len(text))
        email_end == Find2(m1, "\n", "\n")
        email == SubSeq(m1, 1, email_end - 1)
        m2 == SubSeq(m1, email_end + 2, Len(m1))
    IN  IF email_start = 0 \/ email_end = 0
        THEN [panic |-> TRUE, url |-> <<>>]
        ELSE [panic |-> FALSE,
              url |-> <<Txt("mailto:")>> \o email \o <<Txt("?body=")>>
                      \o PercentEncode(m2)]

\* format_mailto: the mailto URL, or a panic of one of the two .expect()
format_mailto(text) ==
    LET email_start == Find2(text, ":", " ")
        m1 == SubSeq(text, email_start + 2, Len(text))
        email_end == Find2(m1, "\n", "\n")
        email == SubSeq(m1, 1, email_end - 1)
        m2 == SubSeq(m1, email_end + 1, Len(m1))
    IN  IF email_start = 0 \/ email_end = 0
        THEN [panic |-> TRUE, url |-> <<>>]
        ELSE [panic |-> FALSE,
              url |-> <<Txt("mailto:")>> \o email \o <<Txt("?body=")>>
                      \o PercentEncode(m2)]

\* AttemptEnd where the error of an attempt is returned with `?`.
AttemptEndReturnsError(result, mailto) ==
    IF ~result.ok
    THEN [kind |-> "abort", text |-> <<>>]
    ELSE IF ~mailto
    THEN [kind |-> "push", text |-> result.val]
    ELSE IF format_mailto(result.val).panic
    THEN [kind |-> "panic", text |-> <<>>]
    ELSE [kind |-> "push", text |-> format_mailto(result.val).url]

\* `match encrypted_message` after the fold: what the attempt ends in.
AttemptEnd(result, mailto) ==
    IF ~result.ok
    THEN [kind |-> "report", text |-> <<>>]
    ELSE IF ~IsUtf8(result.val)
    THEN [kind |-> "abort", text |-> <<>>]
    ELSE IF ~mailto
    THEN [kind |-> "push", text |-> result.val]
    ELSE IF format_mailto(result.val).panic
    THEN [kind |-> "panic", text |-> <<>>]
    ELSE [kind |-> "push", text |-> format_mailto(result.val).url]

\* The arguments and the registry encrypt_message is called with.
InitEncrypt ==
    /\ remailers \in EncRegistries
    /\ stats_pc = "done"
    /\ nrec = 0
    /\ last_match = NoMatch
    /\ seen_identity = [n \in Names |-> None]
    /\ seen_stats = [n \in Names |-> None]
    /\ LatIdle
    /\ KeysIdle
    /\ chain \in SeqsUpTo(ChainTokens, MaxChain)
    /\ redundancy \in 0..MaxRedundancy
    /\ mailto_link \in BOOLEAN
    /\ message \in Messages
    /\ headers = <<>>
    /\ random_remailers = {}
    /\ r_count = 0
    /\ pos = 0
    /\ acc = Ok(<<>>)
    /\ resolved = <<>>
    /\ pgp_calls = <<>>
    /\ encrypted_messages = <<>>
    /\ reported = <<>>
    /\ pc = "start"

\* main(), with one of the backends of pgp.rs
Init ==
    InitEncrypt /\ pgp_backend = "armored"

\* encrypt_message with any closure as `encrypt`
InitAnyBackend ==
    InitEncrypt /\ pgp_backend = "any"

\* fs::read_to_string(message)?.into_bytes(), then remailers.keys().collect()
ReadMessage ==
    /\ pc = "start"
    /\ \E readable \in BOOLEAN :
        IF readable
        THEN /\ pc' = "loop"
             /\ random_remailers' = DOMAIN remailers
        ELSE /\ pc' = "aborted"
             /\ UNCHANGED random_remailers
    /\ UNCHANGED <<chain, redundancy, mailto_link, message, headers, pgp_backend,
                   r_count, pos, acc, resolved, pgp_calls, encrypted_messages,
                   reported>>
    /\ UNCHANGED <<statsVars, latVars, keysVars>>

\* One turn of `for r_count in 0..(*redundancy as u8)` begins: the shuffle
\* (which keeps the ids and changes their order only), and the fold starts
\* from Ok(message.clone()).
StartAttempt ==
    /\ pc = "loop" /\ r_count < Attempts(redundancy)
    /\ r_count' = r_count + 1
    /\ random_remailers' = random_remailers
    /\ acc' = Ok(message)
    /\ pos' = Len(chain)
    /\ resolved' = <<>>
    /\ pgp_calls' = <<>>
    /\ pc' = "fold"
    /\ UNCHANGED <<chain, redundancy, mailto_link, message, headers, pgp_backend,
                   encrypted_messages, reported>>
    /\ UNCHANGED <<statsVars, latVars, keysVars>>

\* chain.iter().rev().fold(..): the closure on the next token, last first
FoldStep ==
    /\ pc = "fold" /\ pos > 0
    /\ \E pick \in random_remailers \cup {""}, outcome \in PgpOutcomes(pgp_backend) :
        /\ pick = "" <=> random_remailers = {}
        /\ LET r == FoldClosure(remailers, random_remailers, acc, chain[pos],
                                pick, outcome)
           IN  /\ acc' = r.acc
               /\ resolved' = resolved \o r.relay
               /\ pgp_calls' = pgp_calls \o r.call
    /\ pos' = pos - 1
    /\ UNCHANGED <<chain, redundancy, mailto_link, message, headers, pgp_backend,
                   random_remailers, r_count, encrypted_messages, reported, pc>>
    /\ UNCHANGED <<statsVars, latVars, keysVars>>

\* `match encrypted_message { Ok(message) => .., Err(err) => .. }`
FinishAttempt ==
    /\ pc = "fold" /\ pos = 0
    /\ LET e == AttemptEnd(acc, mailto_link)
       IN  /\ encrypted_messages' =
                  IF e.kind = "push" THEN Append(encrypted_messages, e.text)
                  ELSE encrypted_messages
           /\ reported' =
                  IF e.kind = "report" THEN Append(reported, acc.err) ELSE reported
           /\ pc' = CASE e.kind = "abort" -> "aborted"
                      [] e.kind = "panic" -> "panicked"
                      [] OTHER -> "loop"
    \* the locals of the turn are dropped
    /\ acc' = Ok(<<>>)
    /\ resolved' = <<>>
    /\ pgp_calls' = <<>>
    /\ UNCHANGED <<chain, redundancy, mailto_link, message, headers, pgp_backend,
                   random_remailers, r_count, pos>>
    /\ UNCHANGED <<statsVars, latVars, keysVars>>

\* Ok(encrypted_messages)
Return ==
    /\ pc = "loop" /\ r_count >= Attempts(redundancy)
    /\ pc' = "done"
    /\ UNCHANGED <<chain, redundancy, mailto_link, message, headers, pgp_backend,
                   random_remailers, r_count, pos, acc, resolved, pgp_calls,
                   encrypted_messages, reported>>
    /\ UNCHANGED <<statsVars, latVars, keysVars>>

Next ==
    \/ ReadMessage
    \/ StartAttempt
    \/ FoldStep
    \/ FinishAttempt
    \/ Return

Spec ==
    Init /\ [][Next]_vars

SpecAnyBackend ==
    InitAnyBackend /\ [][Next]_vars

(* -------------------- lib.rs: CypherpunkCore::encrypt_message ---------- *)
\* Extra headers a caller may give.
ExtraHeaders ==
    { Str(<<"Latent-Time", ":", " ", "+0:00">>) }

\* headers.join("\n")
RECURSIVE Join(_)
Join(hs) ==
    IF hs = <<>> THEN <<>>
    ELSE IF Len(hs) = 1 THEN hs[1]
    ELSE hs[1] \o <<Txt("\n")>> \o Join(Tail(hs))

\* format!("\n::\nAnon-To: {}\n{}\n\n::\nEncrypted: PGP\n\n", remailer, addheaders)
CoreHeader(remailer, hs) ==
    Str(<<"\n", ":", ":", "\n", "Anon-To", ":", " ", remailer, "\n">>)
    \o Join(hs)
    \o Str(<<"\n", "\n", ":", ":", "\n", "Encrypted", ":", " ", "PGP", "\n", "\n">>)

\* The closure of the fold, for one element of the chain.
CoreFoldClosure(input, remailer, hs, outcome) ==
    IF ~input.ok
    THEN [acc |-> input, call |-> None]
    ELSE LET call == [to |-> remailer, input |-> input.val, outcome |-> outcome]
         IN  IF outcome = "fail"
             THEN [acc |-> Err("Encryption failed!"), call |-> Some(call)]
             ELSE [acc |-> Ok(CoreHeader(remailer, hs)
                              \o Ciphertext(input.val, remailer, outcome)),
                   call |-> Some(call)]

\* A call of the core: a chain of relay addresses, extra headers, a message.
InitCore ==
    /\ StatsIdle
    /\ LatIdle
    /\ KeysIdle
    /\ chain \in SeqsUpTo(Emails, MaxChain)
    /\ redundancy = 1
    /\ mailto_link = FALSE
    /\ message \in Messages
    /\ headers \in SeqsUpTo(ExtraHeaders, MaxHeaders)
    /\ pgp_backend = "any"
    /\ random_remailers = {}
    /\ r_count = 0
    /\ pos = Len(chain)
    /\ acc = Ok(message)
    /\ resolved = <<>>
    /\ pgp_calls = <<>>
    /\ encrypted_messages = <<>>
    /\ reported = <<>>
    /\ pc = "core_fold"

\* chain.iter().fold(..): the closure on the next element, first first
CoreFoldStep ==
    /\ pc = "core_fold" /\ pos > 0
    /\ \E outcome \in PgpOutcomes(pgp_backend) :
        LET r == CoreFoldClosure(acc, chain[Len(chain) - pos + 1], headers, outcome)
        IN  /\ acc' = r.acc
            /\ pgp_calls' = pgp_calls \o r.call
    /\ pos' = pos - 1
    /\ UNCHANGED <<chain, redundancy, mailto_link, message, headers, pgp_backend,
                   random_remailers, r_count, resolved, encrypted_messages,
                   reported, pc>>
    /\ UNCHANGED <<statsVars, latVars, keysVars>>

\* The value of the fold is returned.
CoreReturn ==
    /\ pc = "core_fold" /\ pos = 0
    /\ pc' = "core_done"
    /\ UNCHANGED <<chain, redundancy, mailto_link, message, headers, pgp_backend,
                   random_remailers, r_count, pos, acc, resolved, pgp_calls,
                   encrypted_messages, reported>>
    /\ UNCHANGED <<statsVars, latVars, keysVars>>

NextCore ==
    \/ CoreFoldStep
    \/ CoreReturn

SpecCore ==
    InitCore /\ [][NextCore]_vars

(* -------------------------- opening an envelope ------------------------ *)
LayerStart ==
    Str(<<"\n", ":", ":", "\n", "Anon-To", ":", " ">>)

LayerEnd ==
    Str(<<"\n", "\n", ":", ":", "\n", "Encrypted", ":", " ", "PGP", "\n", "\n">>)

\* A header block naming a relay, then one ciphertext.
IsLayer(env) ==
    /\ Len(env) >= 20
    /\ SubSeq(env, 1, 7) = LayerStart
    /\ env[8].t = "txt"
    /\ env[9] = Txt("\n")
    /\ SubSeq(env, Len(env) - 11, Len(env) - 1) = LayerEnd
    /\ env[Len(env)].t = "pgp"

\* The envelope goes through the relays `hops`, first relay first: each must
\* be the relay the header in front of it names and the one that can open
\* the ciphertext; what the last one finds is the result.
RECURSIVE Peel(_, _)
Peel(env, hops) ==
    IF hops = <<>> THEN Ok(env)
    ELSE IF IsLayer(env) /\ env[8].s = hops[1] /\ env[Len(env)].to = hops[1]
    THEN Peel(env[Len(env)].body, Tail(hops))
    ELSE Err("the relay cannot open the layer")

\* C1: when every PGP call succeeds, the envelope of a non-empty chain opens
\* hop by hop in forward chain order, every layer naming the next relay of
\* the chain, and the last relay finds the plaintext, byte for byte.
C1_RoundTrip ==
    (pc = "core_done" /\ acc.ok /\ chain # <<>>) =>
        Peel(acc.val, chain) = Ok(message)

\* The same for encrypt_message of main.rs, on the chain it resolved.
ResolvedChain ==
    [i \in 1..Len(resolved) |-> remailers[resolved[Len(resolved) + 1 - i]].email_address]

MainRoundTrip ==
    (pc = "fold" /\ pos = 0 /\ acc.ok /\ chain # <<>>) =>
        /\ Len(resolved) = Len(chain)
        /\ Peel(acc.val, ResolvedChain) = Ok(message)

(* -------------------- properties of encrypt_message -------------------- *)
\* The number of header-plus-ciphertext layers nested in a text.
RECURSIVE Layers(_)
Layers(env) ==
    IF IsLayer(env) THEN 1 + Layers(env[Len(env)].body) ELSE 0

\* What the caller of encrypt_message gets: the collector with Ok, nothing
\* with an Err or a panic.
Returned ==
    IF pc = "done" THEN encrypted_messages ELSE <<>>

\* Attempts reported as failed; the attempt whose error or panic ended the
\* whole call is counted as reported too.
ReportedFailures ==
    Len(reported) + (IF pc \in {"aborted", "panicked"} THEN 1 ELSE 0)

\* C2: for redundancy R >= 1, once the R attempts have run, the envelopes
\* returned plus the attempts reported as failed are R, and an envelope has
\* one layer per token of the chain.
C2_EnvelopesPlusFailures ==
    /\ (redundancy >= 1 /\ r_count = Attempts(redundancy)
        /\ pc \in {"done", "aborted", "panicked"}) =>
           Len(Returned) + ReportedFailures = redundancy
    /\ (pc = "fold" /\ pos = 0 /\ acc.ok) => Layers(acc.val) = Len(chain)

\* A literal token that names no known relay.
UnknownTokens ==
    { i \in DOMAIN chain : chain[i] # "*" /\ chain[i] \notin DOMAIN remailers }

\* A wildcard that has no candidate.
DeadWildcards ==
    { i \in DOMAIN chain : chain[i] = "*" /\ DOMAIN remailers = {} }

C6_NoZeroHopEnvelope ==
    /\ (pc = "fold" /\ pos = 0 /\ resolved = <<>>) => ~acc.ok
    /\ \A i \in DOMAIN encrypted_messages : encrypted_messages[i] # message

\* C7: every relay of a resolved chain, drawn for a wildcard or named, is a
\* relay of the registry, every PGP call is addressed to such a relay, and a
\* chain of wildcards only fails when there is no candidate.
C7_WildcardDraws ==
    /\ \A i \in DOMAIN resolved : resolved[i] \in DOMAIN remailers
    /\ \A i \in DOMAIN pgp_calls :
           \E n \in DOMAIN remailers : pgp_calls[i].to = remailers[n].email_address
    /\ (pc = "fold" /\ pos = 0 /\ chain # <<>> /\ DOMAIN remailers = {}
        /\ \A i \in DOMAIN chain : chain[i] = "*") => ~acc.ok

\* Three wildcards, two relays known: one relay drawn twice, the other once.
C7_Witness ==
    /\ pc = "fold" /\ pos = 0 /\ acc.ok
    /\ chain = <<"*", "*", "*">>
    /\ resolved = <<"dizum", "austria", "dizum">>

PgpFailed ==
    \E i \in DOMAIN pgp_calls : pgp_calls[i].outcome = "fail"

C8_Step ==
    \* the PGP capability is not called again in the attempt
    /\ (pc = "fold" /\ PgpFailed /\ pos' < pos) =>
           pgp_calls' = pgp_calls /\ ~acc'.ok
    \* no envelope for the attempt, which is reported; the run goes on
    /\ (pc = "fold" /\ PgpFailed /\ pc' # "fold") =>
           /\ encrypted_messages' = encrypted_messages
           /\ Len(reported') = Len(reported) + 1
           /\ pc' = "loop"
    \* the other attempts are executed, each from the plaintext
    /\ (pc = "loop" /\ reported # <<>> /\ pc' # "loop") =>
           IF r_count < Attempts(redundancy)
           THEN pc' = "fold" /\ acc' = Ok(message) /\ pos' = Len(chain)
                /\ pgp_calls' = <<>>
           ELSE pc' = "done" /\ encrypted_messages' = encrypted_messages

\* C8: a PGP failure aborts its attempt: no further PGP call in the attempt,
\* no envelope for it, and the other attempts of the run are still executed,
\* the envelopes collected before staying as they are.
C8_PgpFailureAbortsAttempt ==
    [][C8_Step]_vars

\* The first attempt failed in the PGP capability, the second one has gone
\* through its two hops.
C8_Witness ==
    /\ pc = "fold" /\ pos = 0 /\ acc.ok
    /\ r_count = 2
    /\ reported = <<"encryption failed">>
    /\ Len(chain) = 2
    /\ Len(pgp_calls) = 2

(* ------------------- format_mailto on any message text ----------------- *)
\* Message files: with or without the "Anon-To: " line, the blank line after
\* it, other header lines around it.
MailtoTexts ==
    { pre \o marker \o after \o body :
        pre \in { <<>>, Str(<<"\n", ":", ":", "\n">>),
                  Str(<<"Subject", ":", " ", "x", "\n">>) },
        marker \in { Str(<<"Anon-To", ":", " ", "a@b.com">>),
                     Str(<<"Anon-To", ":", "a@b.com">>),
                     Str(<<"a@b.com">>) },
        after \in { Str(<<"\n", "\n">>), Str(<<"\n">>), <<>>,
                    Str(<<"\n", "Latent-Time", ":", " ", "+0:00", "\n", "\n">>) },
        body \in { Str(<<"Hello", " ", "World">>), <<>>,
                   Str(<<":", ":", "\n", "Encrypted", ":", " ", "PGP", "\n", "\n",
                         "Hello", " ", "World">>) } }

\* encrypt_message on such a message file, with no --chain or a chain of one
\* relay, --mailto given or not.
InitMailto ==
    /\ remailers = [n \in {"austria"} |->
                       Remailer(n, EmailOf(n), <<<<>>, <<"cpunk">>>>, 0, 0)]
    /\ stats_pc = "done"
    /\ nrec = 0
    /\ last_match = NoMatch
    /\ seen_identity = [n \in Names |-> None]
    /\ seen_stats = [n \in Names |-> None]
    /\ LatIdle
    /\ KeysIdle
    /\ chain \in SeqsUpTo({"austria"}, 1)
    /\ redundancy = 1
    /\ mailto_link \in BOOLEAN
    /\ message \in MailtoTexts
    /\ headers = <<>>
    /\ pgp_backend = "armored"
    /\ random_remailers = {}
    /\ r_count = 0
    /\ pos = 0
    /\ acc = Ok(<<>>)
    /\ resolved = <<>>
    /\ pgp_calls = <<>>
    /\ encrypted_messages = <<>>
    /\ reported = <<>>
    /\ pc = "start"

SpecMailto ==
    InitMailto /\ [][Next]_vars

(* ------------------------ properties of format_mailto ------------------ *)
\* The first index of `text` at which the words `pat` stand, 0 if nowhere.
FirstAt(text, pat) ==
    LET hits == { i \in 1..(Len(text) + 1 - Len(pat)) :
                      SubSeq(text, i, i + Len(pat) - 1) = Str(pat) }
    IN  IF hits = {} THEN 0 ELSE CHOOSE i \in hits : \A j \in hits : i <= j

\* The text from index i on.
From(text, i) ==
    SubSeq(text, i, Len(text))

\* What follows the marker "Anon-To: " of a text that has one.
AfterMarker(text) ==
    From(text, FirstAt(text, <<"Anon-To", ":", " ">>) + 3)

\* The text has the marker "Anon-To: " and, later, a blank line.
HasMarkerAndBlankLine(text) ==
    /\ FirstAt(text, <<"Anon-To", ":", " ">>) # 0
    /\ FirstAt(AfterMarker(text), <<"\n", "\n">>) # 0

\* The URL the statement of C11 describes: the address runs from the marker
\* to the next line break, the body is what follows the first blank line
\* after the marker.
ClaimedMailto(text) ==
    LET rest == AfterMarker(text)
        address == SubSeq(rest, 1, FirstAt(rest, <<"\n">>) - 1)
        body == From(rest, FirstAt(rest, <<"\n", "\n">>) + 2)
    IN  <<Txt("mailto:")>> \o address \o <<Txt("?body=")>> \o PercentEncode(body)

\* The envelope of the example.
ExampleEnvelope ==
    Str(<<"\n", ":", ":", "\n", "Anon-To", ":", " ", "a@b.com", "\n", "\n",
          ":", ":", "\n", "Encrypted", ":", " ", "PGP", "\n", "\n",
          "Hello", " ", "World">>)

\* An attempt ends with the text `text` and --mailto: format_mailto(text) is
\* pushed into the collector.
MailtoPushes(text, url) ==
    (pc = "fold" /\ pos = 0 /\ mailto_link /\ acc = Ok(text)) =>
        /\ pc' = "loop"
        /\ encrypted_messages' = Append(encrypted_messages, url)

MailtoOf(text) ==
    LET rest == From(text, FirstAt(text, <<":", " ">>) + 2)
        address == SubSeq(rest, 1, FirstAt(rest, <<"\n", "\n">>) - 1)
        body == From(rest, FirstAt(rest, <<"\n", "\n">>) + 1)
    IN  <<Txt("mailto:")>> \o address \o <<Txt("?body=")>> \o PercentEncode(body)

\* The text is an envelope as encrypt_message builds it: it starts with
\* "\n::\nAnon-To: ", an address and a blank line.
BuiltEnvelope(text) ==
    /\ Len(text) >= 10
    /\ SubSeq(text, 1, 7) = LayerStart
    /\ SubSeq(text, 9, 10) = Str(<<"\n", "\n">>)

C12_MalformedIsError ==
    [][ (pc = "fold" /\ pos = 0 /\ acc.ok /\ IsUtf8(acc.val)
         /\ ~HasMarkerAndBlankLine(acc.val)) =>
            /\ pc' # "panicked"
            /\ encrypted_messages' = encrypted_messages
      ]_vars

(* ------------------------- order of the fold --------------------------- *)
\* C13: the PGP calls of an attempt are issued for chain[N], chain[N-1], ..,
\* chain[1] in that order, and the outermost ciphertext of the envelope is
\* the one addressed to chain[1].
C13_LastToFirst ==
    /\ pc \in {"core_fold", "core_done"} =>
           \A i \in DOMAIN pgp_calls : pgp_calls[i].to = chain[Len(chain) + 1 - i]
    /\ (pc = "core_done" /\ acc.ok /\ chain # <<>>) =>
           /\ acc.val[Len(acc.val)].to = chain[1]
           /\ acc.val[8] = Txt(chain[1])

\* The same for encrypt_message of main.rs: the i-th call of an attempt is
\* for the relay of the i-th token from the end, and the outermost layer is
\* for the relay of the first token.
C13_MainLastToFirst ==
    /\ pc = "fold" =>
           \A i \in DOMAIN pgp_calls :
               /\ pgp_calls[i].to = remailers[resolved[i]].email_address
               /\ chain[Len(chain) + 1 - i] \in {"*", resolved[i]}
    /\ (pc = "fold" /\ pos = 0 /\ acc.ok /\ chain # <<>>) =>
           /\ Len(resolved) = Len(chain)
           /\ acc.val[Len(acc.val)].to = remailers[resolved[Len(chain)]].email_address
           /\ acc.val[8] = Txt(remailers[resolved[Len(chain)]].email_address)

(* ----------------- both implementations of the fold ------------------- *)
\* A call of encrypt_message of main.rs or of the one of the core.
InitBoth ==
    Init \/ InitCore

NextBoth ==
    Next \/ NextCore

SpecBoth ==
    InitBoth /\ [][NextBoth]_vars

\* The fold takes a step.
FoldStepTaken ==
    pc \in {"fold", "core_fold"} /\ pos' = pos - 1

\* The step is executed to its PGP call: no earlier failure in the attempt,
\* and (main.rs) the token resolves.
StepExecuted ==
    /\ FoldStepTaken
    /\ acc.ok
    /\ pc = "fold" => Len(resolved') = Len(resolved) + 1

\* The address of the relay of the step.
StepRelay ==
    IF pc = "core_fold"
    THEN chain[Len(chain) - pos + 1]
    ELSE remailers[resolved'[Len(resolved')]].email_address

\* "\n::\nAnon-To: <email>\n<extra headers joined by newline>\n\n::\nEncrypted: PGP\n\n"
StatedHeader(email, hs) ==
    Str(<<"\n", ":", ":", "\n", "Anon-To", ":", " ", email, "\n">>)
    \o Join(hs)
    \o Str(<<"\n", "\n", ":", ":", "\n", "Encrypted", ":", " ", "PGP", "\n", "\n">>)

\* "\n::\nAnon-To: <email>\n\n::\nEncrypted: PGP\n\n"
PlainHeader(email) ==
    Str(<<"\n", ":", ":", "\n", "Anon-To", ":", " ", email, "\n", "\n",
          ":", ":", "\n", "Encrypted", ":", " ", "PGP", "\n", "\n">>)

\* One PGP call in the step, on the accumulator, for the relay of the step
\* alone; the new accumulator is `header` and then the ciphertext returned.
OneCallThenHeader(header) ==
    /\ Len(pgp_calls') = Len(pgp_calls) + 1
    /\ SubSeq(pgp_calls', 1, Len(pgp_calls)) = pgp_calls
    /\ LET call == pgp_calls'[Len(pgp_calls')]
       IN  /\ call.to = StepRelay
           /\ call.input = acc.val
           /\ IF call.outcome = "fail"
              THEN ~acc'.ok
              ELSE /\ acc'.ok
                   /\ Len(acc'.val) = Len(header) + 1
                   /\ SubSeq(acc'.val, 1, Len(header)) = header
                   /\ acc'.val[Len(acc'.val)].t = "pgp"
                   /\ acc'.val[Len(acc'.val)].to = StepRelay
                   /\ acc'.val[Len(acc'.val)].body = acc.val

\* A successful attempt over N hops has made N PGP calls and its envelope
\* is N layers nested.
NCallsNLayers ==
    (pc \in {"fold", "core_fold"} /\ pos = 0 /\ acc.ok) =>
        /\ Len(pgp_calls) = Len(chain)
        /\ Layers(acc.val) = Len(chain)

\* C14 as stated: the header block of every step is the one with the line
\* of extra headers, in the core and in main.rs.
C14_StepAsStated ==
    [][ /\ StepExecuted => OneCallThenHeader(StatedHeader(StepRelay, headers))
        /\ NCallsNLayers
      ]_vars

\* C14, amended: at every fold step reached without an earlier failure of
\* the attempt and whose token resolves, the PGP capability is called
\* exactly once, on the accumulator, for the relay of the step alone; the
\* new accumulator is a header block followed by the ciphertext returned:
\* the block with the extra headers in the core, the block
\* "\n::\nAnon-To: <email>\n\n::\nEncrypted: PGP\n\n" in main.rs, which takes
\* no extra headers.  A step after a failure makes no PGP call.  A
\* successful attempt over N hops makes N calls and has N nested layers.
C14_Step ==
    [][ /\ StepExecuted =>
               OneCallThenHeader(IF pc = "core_fold"
                                 THEN StatedHeader(StepRelay, headers)
                                 ELSE PlainHeader(StepRelay))
        /\ (FoldStepTaken /\ ~StepExecuted) => (pgp_calls' = pgp_calls /\ ~acc'.ok)
        /\ NCallsNLayers
      ]_vars

\* An attempt of main.rs over a named relay and a wildcard has succeeded.
C14_Witness ==
    /\ pc = "fold" /\ pos = 0 /\ acc.ok
    /\ chain = <<"austria", "*">>
    /\ Len(pgp_calls) = 2
    /\ Layers(acc.val) = 2

(* ------------------------ the failure reported ------------------------- *)
\* C15: once a step of an attempt has failed, the failure stays the one of
\* the attempt whatever the later tokens are, and it is the one reported.
C15_FirstFailureReported ==
    [][ /\ (pc = "fold" /\ ~acc.ok /\ pos' = pos - 1) => acc' = acc
        /\ (pc = "fold" /\ pos = 0 /\ ~acc.ok) => reported' = Append(reported, acc.err)
      ]_vars

\* The part of C15 that holds: what is reported is the failure the fold
\* ends with, and a failure of the PGP capability is never replaced by the
\* failure of a later PGP call.
C15_LastFailureReported ==
    [][ /\ (pc = "fold" /\ ~acc.ok /\ pos' = pos - 1) =>
               (acc' = acc \/ (pgp_calls' = pgp_calls /\ Len(resolved') = Len(resolved)))
        /\ (pc = "fold" /\ pos = 0 /\ ~acc.ok) => reported' = Append(reported, acc.err)
      ]_vars

(* ------------------------- the redundancy argument --------------------- *)
\* Values of the i8 argument: its bounds, zero and its neighbours.
RedundancyValues ==
    {-128, -1, 0, 1, 127}

\* encrypt_message on a chain of one relay, for each of these values.
InitRedundancy ==
    /\ remailers = [n \in {"austria"} |->
                       Remailer(n, EmailOf(n), <<<<>>, <<"cpunk">>>>, 0, 0)]
    /\ stats_pc = "done"
    /\ nrec = 0
    /\ last_match = NoMatch
    /\ seen_identity = [n \in Names |-> None]
    /\ seen_stats = [n \in Names |-> None]
    /\ LatIdle
    /\ KeysIdle
    /\ chain = <<"austria">>
    /\ redundancy \in RedundancyValues
    /\ mailto_link = FALSE
    /\ message = Str(<<"Hello", " ", "World">>)
    /\ headers = <<>>
    /\ pgp_backend = "armored"
    /\ random_remailers = {}
    /\ r_count = 0
    /\ pos = 0
    /\ acc = Ok(<<>>)
    /\ resolved = <<>>
    /\ pgp_calls = <<>>
    /\ encrypted_messages = <<>>
    /\ reported = <<>>
    /\ pc = "start"

SpecRedundancy ==
    InitRedundancy /\ [][Next]_vars

\* The number of attempts C16 states for a redundancy argument.
StatedAttempts ==
    IF redundancy >= 1 THEN redundancy ELSE 0

\* C16: encrypt_message performs as many attempts as the redundancy
\* argument says for 1..127, and none, hence no PGP call and no envelope,
\* for an argument that is zero or negative.
C16_AttemptsAreRedundancy ==
    /\ r_count <= StatedAttempts
    /\ pc = "done" => r_count = StatedAttempts
    /\ redundancy <= 0 => (pgp_calls = <<>> /\ encrypted_messages = <<>>)

\* The part of C16 that holds: the values 0 to 127.
C16_NonNegativeRedundancy ==
    redundancy >= 0 =>
        /\ r_count <= redundancy
        /\ pc = "done" => r_count = redundancy

(* ----------------------- envelopes that are not text ------------------- *)
\* C17: an attempt whose envelope is not valid UTF-8 loses that attempt
\* only: the envelopes collected so far stay, the loop goes on, and
\* encrypt_message ends by returning the collector.
C17_NotUtf8LosesOneAttempt ==
    [][ (pc = "fold" /\ pos = 0 /\ acc.ok /\ ~IsUtf8(acc.val)) =>
            /\ pc' = "loop"
            /\ encrypted_messages' = encrypted_messages
      ]_vars

=============================================================================
